---- MODULE Spec2Model ----
(***************************************************************************)
(* The feature-track database of VAN_ex/code/Ex4/ex4.py (Track, TracksDB,  *)
(* run_sequence, run_ex4, get_rand_track), the window and trajectory       *)
(* functions of                                                            *)
(* VAN_ex/code/Ex5/ex5.py (get_bundle_windows, relative_to_absolute_poses, *)
(* q5_3) and the relative covariance of VAN_ex/code/Ex6/ex6.py (q6_1).     *)
(*                                                                         *)
(* A keypoint array is an N x 2 numpy array of pixel coordinates, modelled *)
(* as a sequence of <<x, y>> rows.  An inlier set is a pair                *)
(* <<left array, right array>> whose rows are paired by index.             *)
(***************************************************************************)
EXTENDS Integers, Sequences, FiniteSets, TLC

\* ------------------------------------------------------------------ bounds
MaxInliers == 2     \* rows of an inlier array
MaxFrame == 2       \* frame ids are 0..MaxFrame
MaxCalls == 3       \* extend_tracks calls made by an API client
MaxOps == 3         \* calls made by a client that also adds tracks itself
MaxPoses == 3       \* length of the lists handed to relative_to_absolute_poses
MaxKeyframes == 3   \* length of the list handed to get_bundle_windows
MaxKeyframeId == 4  \* its frame ids are 0..MaxKeyframeId
MaxInfo == 5        \* largest entry of a marginal information matrix
MaxTrackLen == 3     \* get_rand_track is asked for tracks of 0..MaxTrackLen frames
MaxLastFrame == 15  \* the trajectory handed to q5_3 has frames 0..last, last <= MaxLastFrame

VARIABLES
    db,             \* the TracksDB object: tracks, frame_ids, track_ids, track_id
    calls,          \* frame_id argument of every extend_tracks call so far, in order
    file,           \* 'tracks_db.pkl': <<>> before serialize, <<blob>> after
    loaded,         \* the object returned by TracksDB.deserialize: <<>> or <<db>>
    pc,             \* "api", "client": a caller of the class; the ex5 or ex6 function
                    \* called; else the position of run_sequence and run_ex4
    idx,            \* run_sequence: the loop variable
    end_frame,      \* run_sequence: its end_frame argument
    left_ext_mat,   \* run_sequence: the Frontend's last answer, "None" or "Mat"
    args,           \* the arguments (and locals) of the function called
    ret             \* ex5, ex6: <<>> before the call, <<what it returned or raised>> after

vars == <<db, calls, file, loaded, pc, idx, end_frame, left_ext_mat, args, ret>>

\* ------------------------------------------------------------ input domains
Frames == 0..MaxFrame

\* Stereo correspondences the Frontend can report: <<left keypoint, right
\* keypoint>>, both <<x, y>>, on the same image row.  Between them they cover
\* equal keypoints, keypoints sharing one coordinate only (left and right, or
\* left only), and keypoints sharing none.
Matches ==
    { <<<<0, 0>>, <<0, 0>>>>, <<<<1, 0>>, <<0, 0>>>>, <<<<0, 1>>, <<1, 1>>>> }

\* An inlier set <<left array, right array>> built from a sequence of matches.
Inliers(ms) == << [i \in DOMAIN ms |-> ms[i][1]], [i \in DOMAIN ms |-> ms[i][2]] >>

\* The <<curr inliers, next inliers>> pairs the Frontend can hand over: both
\* of the same length, rows paired by index.
InlierInputs ==
    UNION { { <<Inliers(cm), Inliers(nm)>> : cm \in [1..n -> Matches], nm \in [1..n -> Matches] }
            : n \in 1..MaxInliers }

\* The Track objects a client builds itself: any id, a run of consecutive
\* frames, one correspondence observed in each of them.
TrackInputs(ids) ==
    { [track_id |-> id,
       frame_ids |-> [i \in 1..(r[2] - r[1] + 1) |-> r[1] + i - 1],
       kp |-> [f \in r[1]..r[2] |-> Inliers(<<m>>)]]
      : id \in ids, r \in { q \in Frames \X Frames : q[1] <= q[2] }, m \in Matches }

\* ------------------------------------------------------------ python / numpy
Range(s) == { s[i] : i \in DOMAIN s }

\* dict[key] = value
SetItem(d, key, value) ==
    [x \in (DOMAIN d) \cup {key} |-> IF x = key THEN value ELSE d[x]]

\* One row of (arr == kp): numpy broadcasts kp over the rows and compares
\* element by element.
RowEq(row, kp) == << row[1] = kp[1], row[2] = kp[2] >>

\* kp in arr, for an ndarray: (arr == kp).any()
Contains(arr, kp) ==
    \E i \in DOMAIN arr : RowEq(arr[i], kp)[1] \/ RowEq(arr[i], kp)[2]

\* np.where(arr == kp)[0][0]: the first row with a True element
FirstIndex(arr, kp) ==
    CHOOSE i \in DOMAIN arr :
        /\ RowEq(arr[i], kp)[1] \/ RowEq(arr[i], kp)[2]
        /\ \A j \in 1..(i - 1) : ~(RowEq(arr[j], kp)[1] \/ RowEq(arr[j], kp)[2])

\* arr[idx] for a list of (1-based) indices
Take(arr, idxs) == [i \in 1..Len(idxs) |-> arr[idxs[i]]]

\* ------------------------------------------------------------------- Track
Track(track_id, frame_ids, kp) ==
    [track_id |-> track_id, frame_ids |-> frame_ids, kp |-> kp]

\* add_frame filing the new observation under the track's last frame id
\* instead of frame_id.
add_frame_stale(track, frame_id, curr_kp, next_kp) ==
    LET last == track.frame_ids[Len(track.frame_ids)]
        kp_to_keep == SelectSeq(track.kp[last][1], LAMBDA kp : Contains(curr_kp[1], kp))
        idx_to_keep == [i \in 1..Len(kp_to_keep) |-> FirstIndex(curr_kp[1], kp_to_keep[i])]
    IN  [track EXCEPT
            !.kp = SetItem(@, last,
                           <<Take(next_kp[1], idx_to_keep), Take(next_kp[2], idx_to_keep)>>),
            !.frame_ids = Append(@, last)]

\* add_frame appending the frame id without storing the observation.
add_frame_nokp(track, frame_id, curr_kp, next_kp) ==
    [track EXCEPT !.frame_ids = Append(@, frame_id)]

add_frame(track, frame_id, curr_kp, next_kp) ==
    LET last == track.frame_ids[Len(track.frame_ids)]
        kp_to_keep == SelectSeq(track.kp[last][1], LAMBDA kp : Contains(curr_kp[1], kp))
        idx_to_keep == [i \in 1..Len(kp_to_keep) |-> FirstIndex(curr_kp[1], kp_to_keep[i])]
    IN  [track EXCEPT
            !.kp = SetItem(@, frame_id,
                           <<Take(next_kp[1], idx_to_keep), Take(next_kp[2], idx_to_keep)>>),
            !.frame_ids = Append(@, frame_id)]

get_track_id(track) == track.track_id

\* ---------------------------------------------------------------- TracksDB
TracksDB ==
    [tracks |-> <<>>, frame_ids |-> <<>>, track_ids |-> <<>>, track_id |-> 0]

get_new_id(d) == [d EXCEPT !.track_id = @ + 1]

add_track(d, track) ==
    [d EXCEPT !.tracks = SetItem(@, d.track_id, track),
              !.frame_ids = @ \o track.frame_ids,
              !.track_ids = Append(@, d.track_id),
              !.track_id = @ + 1]

add_new_track(d, track) ==
    [d EXCEPT !.tracks = SetItem(@, track.track_id, track),
              !.frame_ids = @ \o track.frame_ids,
              !.track_ids = Append(@, track.track_id)]

\* relevant_tracks selecting the tracks by their last frame being any earlier
\* frame, not frame_id - 1.
relevant_tracks_anyprev(d, frame_id, curr_kp) ==
    LET has_prev == SelectSeq(d.track_ids,
                        LAMBDA t : d.tracks[t].frame_ids[Len(d.tracks[t].frame_ids)] < frame_id)
        last(t) == d.tracks[t].frame_ids[Len(d.tracks[t].frame_ids)]
    IN  SelectSeq(has_prev, LAMBDA t :
            /\ \E i \in DOMAIN curr_kp[1] :
                    Contains(d.tracks[t].kp[last(t)][1], curr_kp[1][i])
            /\ \E i \in DOMAIN curr_kp[2] :
                    Contains(d.tracks[t].kp[last(t)][2], curr_kp[2][i]))

\* The tracks extend_tracks selects (lines 154-158): those holding frame
\* frame_id - 1 whose stored left array meets a left inlier and whose stored
\* right array meets a right inlier.
relevant_tracks(d, frame_id, curr_kp) ==
    LET has_prev == SelectSeq(d.track_ids,
                        LAMBDA t : (frame_id - 1) \in Range(d.tracks[t].frame_ids))
    IN  SelectSeq(has_prev, LAMBDA t :
            /\ \E i \in DOMAIN curr_kp[1] :
                    Contains(d.tracks[t].kp[frame_id - 1][1], curr_kp[1][i])
            /\ \E i \in DOMAIN curr_kp[2] :
                    Contains(d.tracks[t].kp[frame_id - 1][2], curr_kp[2][i]))

\* The loop of lines 161-163 over the selected track ids.
RECURSIVE add_frames(_, _, _, _, _)
add_frames(tracks, ids, frame_id, curr_kp, next_kp) ==
    IF ids = <<>> THEN tracks
    ELSE add_frames(
            [tracks EXCEPT ![Head(ids)] = add_frame(@, frame_id, curr_kp, next_kp)],
            Tail(ids), frame_id, curr_kp, next_kp)

\* extend_tracks starting a new track only when it extended none.
extend_tracks_unabsorbed(d, frame_id, curr_kp, next_kp) ==
    LET rel == relevant_tracks(d, frame_id, curr_kp)
        d1 == [d EXCEPT !.tracks = add_frames(@, rel, frame_id, curr_kp, next_kp)]
        new_matches == next_kp
        d2 == get_new_id(d1)
    IN  IF rel # <<>> THEN d1
        ELSE add_new_track(d2, Track(d2.track_id - 1, <<frame_id>>,
                                     SetItem(<<>>, frame_id, new_matches)))

extend_tracks(d, frame_id, curr_kp, next_kp) ==
    LET rel == relevant_tracks(d, frame_id, curr_kp)
        d1 == [d EXCEPT !.tracks = add_frames(@, rel, frame_id, curr_kp, next_kp)]
        new_matches == next_kp
        d2 == get_new_id(d1)
    IN  add_new_track(d2, Track(d2.track_id - 1, <<frame_id>>,
                                SetItem(<<>>, frame_id, new_matches)))

\* get_track_ids looking at the first frame of each track only.
get_track_ids_first(d, frame_id) ==
    SelectSeq(d.track_ids, LAMBDA t : d.tracks[t].frame_ids[1] = frame_id)

get_track_ids(d, frame_id) ==
    SelectSeq(d.track_ids, LAMBDA t : frame_id \in Range(d.tracks[t].frame_ids))

\* list.index(x): the first position of x, counted from 0
Index(s, x) == (CHOOSE i \in DOMAIN s : s[i] = x /\ \A j \in 1..(i - 1) : s[j] # x) - 1

\* What a call returns: the value, None, or the exception it raises.
Returned(v) == [result |-> "value", value |-> v]
ReturnedNone == [result |-> "None", value |-> <<>>]
Raised(e) == [result |-> e, value |-> <<>>]

\* track.kp is keyed by frame id and holds (left array, right array) tuples;
\* line 142 looks it up by the position of the frame and line 143 reads the
\* attribute pt of the tuple found.
get_feature_locations(d, frame_id, track_id) ==
    LET track == d.tracks[track_id]
        frame_ids_ == track.frame_ids
    IN  IF frame_id \notin Range(frame_ids_) THEN ReturnedNone
        ELSE IF Index(frame_ids_, frame_id) \notin DOMAIN track.kp THEN Raised("KeyError")
        ELSE Raised("AttributeError")

\* ------------------------------------------------------------------ pickle
RECURSIVE SortedKeys(_)
SortedKeys(S) ==
    IF S = {} THEN <<>>
    ELSE LET m == CHOOSE x \in S : \A y \in S : x <= y
         IN  <<m>> \o SortedKeys(S \ {m})

\* A dict is pickled as the list of its (key, value) items and rebuilt by
\* setting them one after the other.
Items(d) == [i \in 1..Cardinality(DOMAIN d) |-> <<SortedKeys(DOMAIN d)[i], d[SortedKeys(DOMAIN d)[i]]>>]

RECURSIVE FromItems(_)
FromItems(items) ==
    IF items = <<>> THEN <<>>
    ELSE SetItem(FromItems(SubSeq(items, 1, Len(items) - 1)),
                 items[Len(items)][1], items[Len(items)][2])

\* An object is pickled as its attributes.
DumpTrack(track) ==
    [track_id |-> track.track_id, frame_ids |-> track.frame_ids, kp |-> Items(track.kp)]

LoadTrack(b) ==
    [track_id |-> b.track_id, frame_ids |-> b.frame_ids, kp |-> FromItems(b.kp)]

\* serialize dumping the tracks without their observations.
serialize_nokp(d) ==
    [tracks |-> Items([t \in DOMAIN d.tracks |-> [DumpTrack(d.tracks[t]) EXCEPT !.kp = <<>>]]),
     frame_ids |-> d.frame_ids, track_ids |-> d.track_ids, track_id |-> d.track_id]

\* pickle.dump(self, file): the content of the file written
serialize(d) ==
    [tracks |-> Items([t \in DOMAIN d.tracks |-> DumpTrack(d.tracks[t])]),
     frame_ids |-> d.frame_ids, track_ids |-> d.track_ids, track_id |-> d.track_id]

\* pickle.load(file): the object read back
deserialize(blob) ==
    LET items == FromItems(blob.tracks)
    IN  [tracks |-> [t \in DOMAIN items |-> LoadTrack(items[t])],
         frame_ids |-> blob.frame_ids, track_ids |-> blob.track_ids,
         track_id |-> blob.track_id]

\* ----------------------------------------------------------------- actions
\* A client of the class calls extend_tracks with any frame id and any inliers.
ExtendTracks ==
    /\ pc = "api"
    /\ file = <<>>
    /\ Len(calls) < MaxCalls
    /\ \E frame_id \in Frames, in \in InlierInputs :
            /\ db' = extend_tracks(db, frame_id, in[1], in[2])
            /\ calls' = Append(calls, frame_id)
    /\ UNCHANGED <<file, loaded, pc, idx, end_frame, left_ext_mat, args, ret>>

\* db.serialize('tracks_db.pkl'), once ingestion is over.
Serialize ==
    /\ pc = "api"
    /\ file = <<>>
    /\ file' = <<serialize(db)>>
    /\ UNCHANGED <<db, calls, loaded, pc, idx, end_frame, left_ext_mat, args, ret>>

\* TracksDB.deserialize('tracks_db.pkl')
Deserialize ==
    /\ file # <<>>
    /\ loaded = <<>>
    /\ loaded' = <<deserialize(file[1])>>
    /\ UNCHANGED <<db, calls, file, pc, idx, end_frame, left_ext_mat, args, ret>>

\* A client adds a Track it built, with add_track.
AddTrack ==
    /\ pc = "client"
    /\ Len(db.track_ids) < MaxOps
    /\ \E track \in TrackInputs(0..1) : db' = add_track(db, track)
    /\ UNCHANGED <<calls, file, loaded, pc, idx, end_frame, left_ext_mat, args, ret>>

\* A client adds a Track it built under an id taken from get_new_id, with
\* add_new_track (as line 174 does).
AddNewTrack ==
    /\ pc = "client"
    /\ Len(db.track_ids) < MaxOps
    /\ \E track \in TrackInputs({db.track_id}) :
            db' = add_new_track(get_new_id(db), track)
    /\ UNCHANGED <<calls, file, loaded, pc, idx, end_frame, left_ext_mat, args, ret>>

\* A client adds a Track it built under an id of its choice, with
\* add_new_track: the method takes any Track object.
AddNewTrackAny ==
    /\ pc = "client"
    /\ Len(db.track_ids) < MaxOps
    /\ \E track \in TrackInputs(0..1) : db' = add_new_track(db, track)
    /\ UNCHANGED <<calls, file, loaded, pc, idx, end_frame, left_ext_mat, args, ret>>

ClientExtendTracks ==
    /\ pc = "client"
    /\ Len(db.track_ids) < MaxOps
    /\ \E frame_id \in Frames, in \in InlierInputs :
            /\ db' = extend_tracks(db, frame_id, in[1], in[2])
            /\ calls' = Append(calls, frame_id)
    /\ UNCHANGED <<file, loaded, pc, idx, end_frame, left_ext_mat, args, ret>>

\* One pass of run_sequence's loop body without the check of line 417.
loop_body_nocheck(d, i, mat, in) == extend_tracks(d, i, in[1], in[2])

\* One pass of run_sequence's loop body (lines 416-419): mat and in are the
\* Frontend's answer for the frame pair (i, i + 1).
loop_body(d, i, mat, in) ==
    IF mat # "None" THEN extend_tracks(d, i, in[1], in[2]) ELSE d

\* A pass of the loop that calls extend_tracks and leaves the loop variable
\* where it was.
RunStepSuccess_repeat ==
    /\ pc = "loop"
    /\ idx < end_frame
    /\ \E in \in InlierInputs : db' = loop_body(db, idx, "Mat", in)
    /\ left_ext_mat' = "Mat"
    /\ calls' = Append(calls, idx)
    /\ UNCHANGED <<file, loaded, pc, idx, end_frame, args, ret>>

\* db.serialize called inside the loop instead of after it.
RunSerialize_early ==
    /\ pc = "loop"
    /\ file = <<>>
    /\ file' = <<serialize(db)>>
    /\ UNCHANGED <<db, calls, loaded, pc, idx, end_frame, left_ext_mat, args, ret>>

\* The loop of run_sequence, a pair for which the Frontend succeeds.
RunStepSuccess ==
    /\ pc = "loop"
    /\ idx < end_frame
    /\ \E in \in InlierInputs : db' = loop_body(db, idx, "Mat", in)
    /\ left_ext_mat' = "Mat"
    /\ calls' = Append(calls, idx)
    /\ idx' = idx + 1
    /\ UNCHANGED <<file, loaded, pc, end_frame, args, ret>>

\* The loop of run_sequence, a pair for which the Frontend fails.
RunStepFailure ==
    /\ pc = "loop"
    /\ idx < end_frame
    /\ \E in \in InlierInputs : db' = loop_body(db, idx, "None", in)
    /\ left_ext_mat' = "None"
    /\ idx' = idx + 1
    /\ UNCHANGED <<calls, file, loaded, pc, end_frame, args, ret>>

\* Line 426, after the loop.
RunSerialize ==
    /\ pc = "loop"
    /\ idx >= end_frame
    /\ file' = <<serialize(db)>>
    /\ pc' = "done"
    /\ UNCHANGED <<db, calls, loaded, idx, end_frame, left_ext_mat, args, ret>>

\* The statistics get_statistics prints (lines 223-235); np.max and np.min
\* raise ValueError on an empty list.  It assigns to no attribute of the store.
get_statistics(d) ==
    LET track_lengths == [i \in DOMAIN d.track_ids |-> Len(d.tracks[d.track_ids[i]].frame_ids)]
    IN  IF track_lengths = <<>> THEN Raised("ValueError")
        ELSE Returned([num_tracks |-> Len(d.track_ids),
                       num_frames |-> Len(d.frame_ids),
                       max_track_length |->
                           CHOOSE m \in Range(track_lengths) : \A l \in Range(track_lengths) : l <= m,
                       min_track_length |->
                           CHOOSE m \in Range(track_lengths) : \A l \in Range(track_lengths) : m <= l])

\* run_ex4, line 434: tracks_db.get_statistics() on the store run_sequence
\* returned.
GetStatistics ==
    /\ pc = "done"
    /\ pc' = IF get_statistics(db).result = "value" THEN "stats" ELSE "raised"
    /\ UNCHANGED <<db, calls, file, loaded, idx, end_frame, left_ext_mat, args, ret>>

\* run_ex4, line 437: create_gif(START_FRAME, END_FRAME, tracks_db) reads the
\* track ids, frame lists and observations of the store and writes run.gif.
CreateGif ==
    /\ pc = "stats"
    /\ pc' = "end"
    /\ UNCHANGED <<db, calls, file, loaded, idx, end_frame, left_ext_mat, args, ret>>

\* ----------------------------------------------------------- get_rand_track
\* Line 283: track_id = np.random.choice(tracks.track_ids), any id of the list.
RandChoice ==
    /\ pc = "get_rand_track"
    /\ \E track_id \in Range(db.track_ids) :
            args' = [args EXCEPT !.track_id = <<track_id>>, !.draws = (@ + 1) % 2]
    /\ pc' = "while"
    /\ UNCHANGED <<db, calls, file, loaded, idx, end_frame, left_ext_mat, ret>>

\* Lines 285-287: the track chosen is too short, np.random.choice picks
\* track_id for the next try.  draws is the parity of the number of draws
\* made, which tells a pass of the loop from the program standing still.
RandRetry(track_id) ==
    /\ pc = "while"
    /\ Len(db.tracks[args.track_id[1]].frame_ids) < args.track_len
    /\ track_id \in Range(db.track_ids)
    /\ args' = [args EXCEPT !.track_id = <<track_id>>, !.draws = (@ + 1) % 2]
    /\ UNCHANGED <<db, calls, file, loaded, pc, idx, end_frame, left_ext_mat, ret>>

\* Lines 285, 288: the track chosen is long enough and is returned.
RandReturn ==
    /\ pc = "while"
    /\ ~(Len(db.tracks[args.track_id[1]].frame_ids) < args.track_len)
    /\ ret' = <<db.tracks[args.track_id[1]]>>
    /\ pc' = "returned"
    /\ UNCHANGED <<db, calls, file, loaded, idx, end_frame, left_ext_mat, args>>

\* The non-empty stores get_rand_track is called on: those one or two
\* extend_tracks calls of a run leave.
RandStores ==
    LET one == { extend_tracks(TracksDB, 0, in[1], in[2]) : in \in InlierInputs }
    IN  one \cup { extend_tracks(d, 1, in[1], in[2]) : d \in one, in \in InlierInputs }

\* -------------------------------------------------------------- gtsam.Pose3
\* Poses are taken from the subgroup of rigid motions that turn about the
\* camera's y axis by a multiple of 90 degrees and translate in the x-z
\* plane by integers: [r |-> quarter turns, t |-> <<x, z>>].  Points lie in
\* that plane.
Rot(r, p) ==
    CASE r = 0 -> p
      [] r = 1 -> <<0 - p[2], p[1]>>
      [] r = 2 -> <<0 - p[1], 0 - p[2]>>
      [] r = 3 -> <<p[2], 0 - p[1]>>

Pose3(r, t) == [r |-> r, t |-> t]

\* a.compose(b): the motion b followed, in a's frame, by a
compose(a, b) ==
    Pose3((a.r + b.r) % 4, <<a.t[1] + Rot(a.r, b.t)[1], a.t[2] + Rot(a.r, b.t)[2]>>)

\* a.transformFrom(point): the point, given in a's frame, in the world frame
transformFrom(a, point) ==
    <<a.t[1] + Rot(a.r, point)[1], a.t[2] + Rot(a.r, point)[2]>>

\* The relative poses, landmark lists and initial poses the functions of ex5
\* are handed: the identity, a quarter turn and a unit translation, which do
\* not commute.
PoseInputs == { Pose3(0, <<0, 0>>), Pose3(1, <<0, 0>>), Pose3(0, <<1, 0>>) }
PointsInputs == { <<>>, << <<1, 0>> >> }
InitCamInputs == { Pose3(0, <<1, 0>>) }

SeqsUpTo(S, n) == UNION { [1..k -> S] : k \in 0..n }

\* ---------------------------------------------------------------------- ex5
Min(a, b) == IF a <= b THEN a ELSE b

\* lst[1:]
Rest(lst) == IF lst = <<>> THEN <<>> ELSE Tail(lst)

\* zip(a, b, c) stops with the shortest of the three.
Zip(a, b, c) ==
    [i \in 1..Min(Len(a), Min(Len(b), Len(c))) |-> <<a[i], b[i], c[i]>>]

\* The loop body of relative_to_absolute_poses composing the window's pose
\* on the left of the accumulated pose.
accumulate_left(st, bundle_camera, bundle_points, bundle_init) ==
    LET base_camera == compose(bundle_camera, st.base_camera)
        base_init == compose(bundle_init, st.base_init)
        abs_cameras == Append(st.abs_cameras, base_camera)
    IN  [base_camera |-> base_camera,
         base_init |-> base_init,
         abs_cameras |-> abs_cameras,
         abs_init |-> Append(st.abs_init, base_init),
         abs_points |-> st.abs_points \o
            [i \in DOMAIN bundle_points |->
                transformFrom(abs_cameras[Len(abs_cameras)], bundle_points[i])]]

\* The loop body of relative_to_absolute_poses, lines 464-469.
accumulate(st, bundle_camera, bundle_points, bundle_init) ==
    LET base_camera == compose(st.base_camera, bundle_camera)
        base_init == compose(st.base_init, bundle_init)
        abs_cameras == Append(st.abs_cameras, base_camera)
    IN  [base_camera |-> base_camera,
         base_init |-> base_init,
         abs_cameras |-> abs_cameras,
         abs_init |-> Append(st.abs_init, base_init),
         abs_points |-> st.abs_points \o
            [i \in DOMAIN bundle_points |->
                transformFrom(abs_cameras[Len(abs_cameras)], bundle_points[i])]]

\* The for loop of line 463 over the zipped lists.
RECURSIVE accumulate_all(_, _)
accumulate_all(st, zipped) ==
    IF zipped = <<>> THEN st
    ELSE accumulate_all(accumulate(st, zipped[1][1], zipped[1][2], zipped[1][3]),
                        Tail(zipped))

\* cameras[0] and init_cams[0] raise IndexError on an empty list.
relative_to_absolute_poses(cameras, points, init_cams) ==
    IF cameras = <<>> \/ init_cams = <<>> THEN Raised("IndexError")
    ELSE LET st == accumulate_all(
                      [base_camera |-> cameras[1], base_init |-> init_cams[1],
                       abs_points |-> <<>>, abs_cameras |-> <<cameras[1]>>,
                       abs_init |-> <<init_cams[1]>>],
                      Zip(Rest(cameras), points, Rest(init_cams)))
         IN  Returned([abs_cameras |-> st.abs_cameras,
                       abs_points |-> st.abs_points,
                       abs_init |-> st.abs_init])

CallRelativeToAbsolutePoses ==
    /\ pc = "relative_to_absolute_poses"
    /\ ret = <<>>
    /\ ret' = <<relative_to_absolute_poses(args.cameras, args.points, args.init_cams)>>
    /\ UNCHANGED <<db, calls, file, loaded, pc, idx, end_frame, left_ext_mat, args>>

\* list(range(a, b))
PyRange(a, b) == [j \in 1..(b - a) |-> a + j - 1]

\* get_bundle_windows with windows that stop before their closing keyframe.
get_bundle_windows_open(keyframes) ==
    [i \in 1..(Len(keyframes) - 1) |-> PyRange(keyframes[i], keyframes[i + 1])]

get_bundle_windows(keyframes) ==
    [i \in 1..(Len(keyframes) - 1) |-> PyRange(keyframes[i], keyframes[i + 1] + 1)]

CallGetBundleWindows ==
    /\ pc = "get_bundle_windows"
    /\ ret = <<>>
    /\ ret' = <<get_bundle_windows(args.keyframes)>>
    /\ UNCHANGED <<db, calls, file, loaded, pc, idx, end_frame, left_ext_mat, args>>

\* The configured bounds of a bundle window's span.
minWindow == 2
maxWindow == 3

\* choose_keyframes that does not close the list with the last frame.
choose_keyframes_open(type, parameter, last_frame) ==
    { SortedKeys(S) : S \in
        { K \in SUBSET (0..last_frame) :
            /\ 0 \in K
            /\ \A k \in K \ {0} :
                  \E j \in K : j < k /\ k - j >= minWindow /\ k - j <= maxWindow
                                /\ \A l \in K : ~(j < l /\ l < k) } }

\* BundleAdjustment.choose_keyframes(type, parameter) on a trajectory of
\* frames 0..last_frame: the keyframe lists it may leave in
\* bundle_adjustment.keyframes.  The rule is pluggable; what is fixed is that
\* the list goes from frame 0 to the last frame and that the span between
\* adjacent keyframes is within [minWindow, maxWindow].
choose_keyframes(type, parameter, last_frame) ==
    { SortedKeys(S) : S \in
        { K \in SUBSET (0..last_frame) :
            /\ 0 \in K
            /\ last_frame \in K
            /\ \A k \in K \ {0} :
                  \E j \in K : j < k /\ k - j >= minWindow /\ k - j <= maxWindow
                                /\ \A l \in K : ~(j < l /\ l < k) } }

\* q5_3, lines 109-110: the BundleAdjustment object is built on the
\* trajectory and chooses its keyframes.
CallChooseKeyframes ==
    /\ pc = "q5_3"
    /\ ret = <<>>
    /\ \E keyframes \in choose_keyframes("end_frame", 200, args.last_frame) :
            ret' = <<keyframes>>
    /\ UNCHANGED <<db, calls, file, loaded, pc, idx, end_frame, left_ext_mat, args>>

\* ---------------------------------------------------------------------- ex6
\* a.inverse()
inverse(a) ==
    Pose3((4 - a.r) % 4, <<0 - Rot((4 - a.r) % 4, a.t)[1], 0 - Rot((4 - a.r) % 4, a.t)[2]>>)

\* a.between(b): the pose b expressed in the frame of a
between(a, b) == compose(inverse(a), b)

\* The dimension of a Pose3 variable.
PoseDim == 6

\* A matrix over n pose variables is kept by blocks: block[i][j] = x stands
\* for the PoseDim x PoseDim block x * I of a matrix with PoseDim * n rows
\* and columns.
Matrix(block) == [n |-> Len(block), block |-> block]
Shape(m) == <<PoseDim * m.n, PoseDim * m.n>>
Identity(n) == Matrix([i \in 1..n |-> [j \in 1..n |-> IF i = j THEN 1 ELSE 0]])

RECURSIVE Sum(_, _)
Sum(f, n) == IF n = 0 THEN 0 ELSE Sum(f, n - 1) + f[n]

MatMul(a, b) ==
    Matrix([i \in 1..a.n |-> [j \in 1..a.n |->
                Sum([k \in 1..a.n |-> a.block[i][k] * b.block[k][j]], a.n)]])

\* np.linalg.inv(m): the matrix of the same shape whose product with m is
\* the identity.
np_linalg_inv(m) ==
    CHOOSE x \in { Matrix(b) : b \in [1..m.n -> [1..m.n -> (0 - MaxInfo)..MaxInfo]] } :
        MatMul(m, x) = Identity(m.n)

\* What the window's optimization hands q6_1: the optimized poses of c0 and
\* ck, and the joint marginal information matrix of (c0, ck), symmetric and
\* positive definite (here with determinant 1, so that its inverse is a
\* matrix of integers).
InformationInputs ==
    { Matrix(<< <<u[1], u[2]>>, <<u[2], u[3]>> >>) :
        u \in { v \in (1..MaxInfo) \X ((0 - MaxInfo)..MaxInfo) \X (1..MaxInfo) :
                    v[1] * v[3] - v[2] * v[2] = 1 } }

\* What q6_1 prints (lines 39-49), given the optimized poses and the answer
\* of marginals.jointMarginalInformation(keys).fullMatrix() for keys (c0, ck).
q6_1(pose_c0, pose_ck, marg_cov_mat) ==
    LET rel_cov == np_linalg_inv(marg_cov_mat)
        rel_pose == between(pose_c0, pose_ck)
    IN  [rel_pose |-> rel_pose, rel_cov |-> rel_cov]

CallQ6_1 ==
    /\ pc = "q6_1"
    /\ ret = <<>>
    /\ ret' = <<q6_1(args.pose_c0, args.pose_ck, args.marg_cov_mat)>>
    /\ UNCHANGED <<db, calls, file, loaded, pc, idx, end_frame, left_ext_mat, args>>

Init ==
    /\ db = TracksDB
    /\ calls = <<>>
    /\ file = <<>>
    /\ loaded = <<>>
    /\ pc = "api"
    /\ idx = 0
    /\ end_frame = 0
    /\ left_ext_mat = "None"
    /\ args = <<>>
    /\ ret = <<>>

Next == ExtendTracks \/ Serialize \/ Deserialize

Spec == Init /\ [][Next]_vars

\* A client that also adds tracks of its own.
InitApi ==
    /\ db = TracksDB
    /\ calls = <<>>
    /\ file = <<>>
    /\ loaded = <<>>
    /\ pc = "client"
    /\ idx = 0
    /\ end_frame = 0
    /\ left_ext_mat = "None"
    /\ args = <<>>
    /\ ret = <<>>

NextApi == AddTrack \/ AddNewTrack \/ ClientExtendTracks

SpecApi == InitApi /\ [][NextApi]_vars

\* A client that calls the three methods that add to the store, with any
\* arguments.
NextStore == AddTrack \/ AddNewTrackAny \/ ClientExtendTracks

SpecStore == InitApi /\ [][NextStore]_vars

\* run_sequence(start_frame, end_frame)
InitRun ==
    /\ db = TracksDB
    /\ calls = <<>>
    /\ file = <<>>
    /\ loaded = <<>>
    /\ pc = "loop"
    /\ idx \in 0..MaxFrame
    /\ end_frame \in 0..(MaxFrame + 1)
    /\ left_ext_mat = "None"
    /\ args = <<>>
    /\ ret = <<>>

NextRun ==
    \/ RunStepSuccess \/ RunStepFailure \/ RunSerialize \/ Deserialize
    \/ GetStatistics \/ CreateGif

SpecRun == InitRun /\ [][NextRun]_vars

\* relative_to_absolute_poses(cameras, points, init_cams) on lists of any
\* lengths.
InitPoses ==
    /\ db = TracksDB
    /\ calls = <<>>
    /\ file = <<>>
    /\ loaded = <<>>
    /\ pc = "relative_to_absolute_poses"
    /\ idx = 0
    /\ end_frame = 0
    /\ left_ext_mat = "None"
    /\ args \in [cameras : SeqsUpTo(PoseInputs, MaxPoses),
                 points : SeqsUpTo(PointsInputs, MaxPoses),
                 init_cams : SeqsUpTo(InitCamInputs, MaxPoses)]
    /\ ret = <<>>

NextPoses == CallRelativeToAbsolutePoses

SpecPoses == InitPoses /\ [][NextPoses]_vars

\* get_bundle_windows(keyframes) on any list of frame ids.
InitWindows ==
    /\ db = TracksDB
    /\ calls = <<>>
    /\ file = <<>>
    /\ loaded = <<>>
    /\ pc = "get_bundle_windows"
    /\ idx = 0
    /\ end_frame = 0
    /\ left_ext_mat = "None"
    /\ args \in [keyframes : SeqsUpTo(0..MaxKeyframeId, MaxKeyframes)]
    /\ ret = <<>>

NextWindows == CallGetBundleWindows

SpecWindows == InitWindows /\ [][NextWindows]_vars

\* q6_1 on the optimized first window.
InitCov ==
    /\ db = TracksDB
    /\ calls = <<>>
    /\ file = <<>>
    /\ loaded = <<>>
    /\ pc = "q6_1"
    /\ idx = 0
    /\ end_frame = 0
    /\ left_ext_mat = "None"
    /\ args \in [pose_c0 : PoseInputs, pose_ck : PoseInputs,
                 marg_cov_mat : InformationInputs]
    /\ ret = <<>>

NextCov == CallQ6_1

SpecCov == InitCov /\ [][NextCov]_vars

\* q5_3(tracks_db, T_arr) on a trajectory of frames 0..last_frame.
InitKeyframes ==
    /\ db = TracksDB
    /\ calls = <<>>
    /\ file = <<>>
    /\ loaded = <<>>
    /\ pc = "q5_3"
    /\ idx = 0
    /\ end_frame = 0
    /\ left_ext_mat = "None"
    /\ args \in [last_frame : 0..MaxLastFrame]
    /\ ret = <<>>

NextKeyframes == CallChooseKeyframes

SpecKeyframes == InitKeyframes /\ [][NextKeyframes]_vars

\* get_rand_track(track_len, db) on a non-empty store.
InitRand ==
    /\ db \in RandStores
    /\ calls = <<>>
    /\ file = <<>>
    /\ loaded = <<>>
    /\ pc = "get_rand_track"
    /\ idx = 0
    /\ end_frame = 0
    /\ left_ext_mat = "None"
    /\ args \in [track_len : 0..MaxTrackLen, track_id : {<<>>}, draws : {0}]
    /\ ret = <<>>

NextRand == RandChoice \/ (\E track_id \in 0..1 : RandRetry(track_id)) \/ RandReturn

SpecRand == InitRand /\ [][NextRand]_vars

\* The program runs on, and np.random.choice, asked again and again, ends
\* up giving every id of the list.
FairRand ==
    /\ SpecRand
    /\ WF_vars(RandChoice)
    /\ WF_vars(RandReturn)
    /\ \A track_id \in 0..1 : SF_vars(RandRetry(track_id))

\* ------------------------------------------------------------------ claims
StrictlyIncreasing(s) == \A i \in DOMAIN s : \A j \in DOMAIN s : i < j => s[i] < s[j]

Last(s) == s[Len(s)]

\* C1 as stated: after any extend_tracks calls, with any frame_id arguments,
\* every track's frame_ids list is strictly increasing (no duplicate).
C1_IncreasingAnyCalls ==
    \A t \in DOMAIN db.tracks : StrictlyIncreasing(db.tracks[t].frame_ids)

\* C2: a call extend_tracks(f, ...) that follows a call extend_tracks(f-1, ...)
\* keeps every stored observation at a frame < f as it was; the observations
\* it adds or changes are at frame f only.
C2_AppendOnly ==
    [][ ( /\ calls # <<>>
          /\ Len(calls') = Len(calls) + 1
          /\ Last(calls') = Last(calls) + 1 )
        => /\ \A t \in DOMAIN db.tracks : \A g \in DOMAIN db.tracks[t].kp :
                 g < Last(calls') =>
                    /\ t \in DOMAIN db'.tracks
                    /\ g \in DOMAIN db'.tracks[t].kp
                    /\ db'.tracks[t].kp[g] = db.tracks[t].kp[g]
           /\ \A t \in DOMAIN db'.tracks : \A g \in DOMAIN db'.tracks[t].kp :
                 g # Last(calls') =>
                    /\ t \in DOMAIN db.tracks
                    /\ g \in DOMAIN db.tracks[t].kp
                    /\ db.tracks[t].kp[g] = db'.tracks[t].kp[g] ]_vars

C2_Witness ==
    /\ Len(calls) >= 2
    /\ Last(calls) = calls[Len(calls) - 1] + 1
    /\ \E t \in DOMAIN db.tracks :
          /\ Len(db.tracks[t].frame_ids) >= 2
          /\ Last(db.tracks[t].frame_ids) = Last(calls)

\* C3: get_feature_locations(frame_id, track_id) returns the observation
\* stored for the track at that frame when the frame is in the track's
\* frame_ids, and None when it is not; it never fails for a frame of the track.
C3_FeatureLocations ==
    \A t \in DOMAIN db.tracks : \A f \in Frames :
        IF f \in Range(db.tracks[t].frame_ids)
        THEN /\ f \in DOMAIN db.tracks[t].kp
             /\ get_feature_locations(db, f, t) = Returned(db.tracks[t].kp[f])
        ELSE get_feature_locations(db, f, t) = ReturnedNone

\* The step is the call extend_tracks(f, in[1], in[2]).
IsExtend(f, in) ==
    /\ db' = extend_tracks(db, f, in[1], in[2])
    /\ calls' = Append(calls, f)

\* Row i of an inlier set or stored observation: its <<left, right>> keypoints.
Pair(kps, i) == <<kps[1][i], kps[2][i]>>
Pairs(kps) == { Pair(kps, i) : i \in DOMAIN kps[1] }

\* The call appended frame f to track t.
Extended(t, f) ==
    db'.tracks[t].frame_ids = Append(db.tracks[t].frame_ids, f)

\* C4: for a track whose last frame is f-1, extend_tracks(f, curr, next)
\* appends frame f if and only if some left/right pair of curr equals a
\* left/right pair stored for the track at frame f-1; a track without such a
\* pair is left unchanged.
C4_ExtendIffPairMatch ==
    [][ \A f \in Frames : \A in \in InlierInputs :
          IsExtend(f, in) =>
            \A t \in DOMAIN db.tracks :
              Last(db.tracks[t].frame_ids) = f - 1 =>
                IF Pairs(in[1]) \cap Pairs(db.tracks[t].kp[f - 1]) # {}
                THEN Extended(t, f)
                ELSE db'.tracks[t] = db.tracks[t] ]_vars

\* C5: for each track extended by extend_tracks(f, curr, next), the
\* observation stored at frame f consists exactly of the next rows whose
\* index is that of a curr pair equal to a pair the track stores at frame f-1.
C5_StoredIsPairedNext ==
    [][ \A f \in Frames : \A in \in InlierInputs :
          IsExtend(f, in) =>
            \A t \in DOMAIN db.tracks :
              (Last(db.tracks[t].frame_ids) = f - 1 /\ Extended(t, f)) =>
                Pairs(db'.tracks[t].kp[f]) =
                    { Pair(in[2], i) : i \in
                        { j \in DOMAIN in[1][1] :
                            Pair(in[1], j) \in Pairs(db.tracks[t].kp[f - 1]) } } ]_vars

\* The rows of next that the call appended to a track that existed before it.
Absorbed(f, in) ==
    { i \in DOMAIN in[2][1] :
        \E t \in DOMAIN db.tracks :
            Extended(t, f) /\ Pair(in[2], i) \in Pairs(db'.tracks[t].kp[f]) }

\* C6: after extend_tracks(f, curr, next) there is one new track per
\* correspondence that no existing track absorbed: its frame list is [f], it
\* holds that one observation, and absorbed correspondences start no track.
C6_NewTrackPerUnabsorbed ==
    [][ \A f \in Frames : \A in \in InlierInputs :
          IsExtend(f, in) =>
            LET new == (DOMAIN db'.tracks) \ (DOMAIN db.tracks)
                unabsorbed == (DOMAIN in[2][1]) \ Absorbed(f, in)
                Single(i) == SetItem(<<>>, f, << <<in[2][1][i]>>, <<in[2][2][i]>> >>)
            IN  /\ Cardinality(new) = Cardinality(unabsorbed)
                /\ \A t \in new :
                      /\ db'.tracks[t].frame_ids = <<f>>
                      /\ \E i \in unabsorbed : db'.tracks[t].kp = Single(i)
                /\ \A i \in unabsorbed :
                      \E t \in new : db'.tracks[t].kp = Single(i) ]_vars

NoDuplicates(s) == \A i \in DOMAIN s : \A j \in DOMAIN s : s[i] = s[j] => i = j

\* C7: get_track_ids(f) returns exactly the ids of the tracks whose frame
\* list contains f, each id once; for a store of track A over frames
\* [0,1,2] and track B over [1,2] it yields {A} at 0, {A,B} at 1 and at 2.
C7_TrackIdsAtFrame ==
    /\ \A f \in Frames :
          /\ Range(get_track_ids(db, f)) =
                { t \in DOMAIN db.tracks : f \in Range(db.tracks[t].frame_ids) }
          /\ NoDuplicates(get_track_ids(db, f))
    /\ ( /\ db.track_ids = <<0, 1>>
          /\ db.tracks[0].frame_ids = <<0, 1, 2>>
          /\ db.tracks[1].frame_ids = <<1, 2>> )
        => /\ get_track_ids(db, 0) = <<0>>
           /\ get_track_ids(db, 1) = <<0, 1>>
           /\ get_track_ids(db, 2) = <<0, 1>>

C7_Witness ==
    /\ db.track_ids = <<0, 1>>
    /\ db.tracks[0].frame_ids = <<0, 1, 2>>
    /\ db.tracks[1].frame_ids = <<1, 2>>
    /\ get_track_ids(db, 0) = <<0>>
    /\ get_track_ids(db, 2) = <<0, 1>>

\* C8: for every track, the frame ids that have a stored observation (the
\* keys of track.kp) are exactly the frame ids of track.frame_ids.
C8_KeysAreFrames ==
    \A t \in DOMAIN db.tracks :
        DOMAIN db.tracks[t].kp = Range(db.tracks[t].frame_ids)

C8_Witness ==
    \E t \in DOMAIN db.tracks :
        /\ Len(db.tracks[t].frame_ids) >= 2
        /\ DOMAIN db.tracks[t].kp = Range(db.tracks[t].frame_ids)

C10_FailureSkipsExtend ==
    [][ (pc = "loop" /\ idx' = idx + 1 /\ left_ext_mat' = "None")
        => /\ db' = db
           /\ calls' = calls
           /\ pc' = "loop" ]_vars

C10_Witness ==
    /\ pc = "loop"
    /\ left_ext_mat = "None"
    /\ calls # <<>>
    /\ idx = Last(calls) + 2
    /\ idx < end_frame

\* C11: run_sequence calls extend_tracks with strictly increasing frame ids,
\* at most once per frame id, every call being over (the loop variable is
\* past its frame id) before the next one starts.
C11_InOrderCalls ==
    /\ StrictlyIncreasing(calls)
    /\ NoDuplicates(calls)
    /\ \A i \in DOMAIN calls : calls[i] < idx

C11_Witness ==
    /\ pc = "done"
    /\ Len(calls) >= 2
    /\ Last(calls) > calls[1] + 1

\* C12: run_sequence starts from an empty store and writes the file exactly
\* once: never a second time, never before the loop is over (so after the
\* last extend_tracks call), and always before it returns.  Once the file is
\* written no step (get_statistics, create_gif, deserialize) changes a track,
\* a frame list, an observation or the id counter, nor calls extend_tracks.
C12_SerializeOnceAtEnd ==
    /\ db = TracksDB
    /\ [][ /\ file' # file =>
                /\ file = <<>>
                /\ idx >= end_frame
                /\ file' = <<serialize(db)>>
           /\ pc' # "loop" => file' # <<>>
           /\ file # <<>> => (db' = db /\ calls' = calls) ]_vars

C12_Witness ==
    /\ pc = "end"
    /\ file = <<serialize(db)>>
    /\ Len(calls) >= 2
    /\ \E t \in DOMAIN db.tracks : Len(db.tracks[t].frame_ids) >= 2

IsPrefix(s, t) == Len(s) <= Len(t) /\ SubSeq(t, 1, Len(s)) = s

\* C13 as stated: whatever extend_tracks, add_track and add_new_track calls
\* are made, every stored track stays stored under its id and is not
\* replaced (its frame list only gets frames appended), and the id counter
\* never decreases.
C13_StoreOnlyGrows ==
    [][ /\ \A t \in DOMAIN db.tracks :
              /\ t \in DOMAIN db'.tracks
              /\ IsPrefix(db.tracks[t].frame_ids, db'.tracks[t].frame_ids)
        /\ db'.track_id >= db.track_id ]_vars

\* C19: in a run of run_sequence (extend_tracks called in increasing frame
\* order, a frame skipped when the Frontend fails) the frame ids of every
\* track are consecutive integers, no track holds a skipped frame, and no
\* track holds frames on both sides of one.
C19_ConsecutiveFrames ==
    /\ \A t \in DOMAIN db.tracks :
          \A i \in 2..Len(db.tracks[t].frame_ids) :
              db.tracks[t].frame_ids[i] = db.tracks[t].frame_ids[i - 1] + 1
    /\ \A g \in Frames \ Range(calls) : \A t \in DOMAIN db.tracks :
          /\ g \notin Range(db.tracks[t].frame_ids)
          /\ ~ \E a, b \in Range(db.tracks[t].frame_ids) : a < g /\ g < b

C19_Witness ==
    /\ calls = <<0, 2>>
    /\ left_ext_mat = "Mat"
    /\ \E t \in DOMAIN db.tracks : db.tracks[t].frame_ids = <<0>>
    /\ \E t \in DOMAIN db.tracks : db.tracks[t].frame_ids = <<2>>
    /\ \A t \in DOMAIN db.tracks : 1 \notin Range(db.tracks[t].frame_ids)

\* The call of relative_to_absolute_poses returned (raised nothing).
PosesReturned == ret # <<>> /\ ret[1].result = "value"

\* C14: in what relative_to_absolute_poses returns, every absolute pose
\* after the first is the absolute pose before it composed on the right with
\* the relative pose at its own position; so for the initial poses.
C14_LeftToRightFold ==
    PosesReturned =>
        /\ \A i \in 2..Len(ret[1].value.abs_cameras) :
              ret[1].value.abs_cameras[i] =
                  compose(ret[1].value.abs_cameras[i - 1], args.cameras[i])
        /\ \A i \in 2..Len(ret[1].value.abs_init) :
              ret[1].value.abs_init[i] =
                  compose(ret[1].value.abs_init[i - 1], args.init_cams[i])

C14_Witness ==
    /\ PosesReturned
    /\ Len(ret[1].value.abs_cameras) = 3
    /\ args.cameras[2] # args.cameras[3]
    /\ compose(args.cameras[2], args.cameras[3]) # compose(args.cameras[3], args.cameras[2])
    /\ ret[1].value.abs_cameras[3] = compose(args.cameras[2], args.cameras[3])

\* The landmarks of the windows 1..n, each transformed by the absolute pose
\* pose_of(i) chosen for its window i.
RECURSIVE LandmarksVia(_, _, _)
LandmarksVia(pose_of(_), points, n) ==
    IF n = 0 THEN <<>>
    ELSE LandmarksVia(pose_of, points, n - 1) \o
            [j \in DOMAIN points[n] |-> transformFrom(pose_of(n), points[n][j])]

\* C15 as stated: the landmarks of window i are put in the global map
\* transformed by the absolute pose of the window's first keyframe k_{i-1},
\* the pose accumulated before the window's relative pose is composed.
C15_LandmarksViaFirstKeyframe ==
    PosesReturned =>
        LET abs_cameras == ret[1].value.abs_cameras
            AbsolutePose(i) == abs_cameras[i]
        IN  ret[1].value.abs_points =
                LandmarksVia(AbsolutePose, args.points, Len(abs_cameras) - 1)

\* C16 as stated: whatever the lengths of cameras, points and init_cams,
\* relative_to_absolute_poses returns one absolute pose per pose of cameras,
\* in order, the first being cameras[0].
C16_CompleteTrajectory ==
    ret # <<>> =>
        /\ PosesReturned
        /\ Len(ret[1].value.abs_cameras) = Len(args.cameras)
        /\ ret[1].value.abs_cameras[1] = args.cameras[1]
        /\ \A i \in 2..Len(ret[1].value.abs_cameras) :
              ret[1].value.abs_cameras[i] =
                  compose(ret[1].value.abs_cameras[i - 1], args.cameras[i])

\* C20: for strictly increasing keyframes k0 < ... < kn, get_bundle_windows
\* returns n windows in keyframe order, window i being the frames
\* k_i, k_i + 1, ..., k_{i+1}; adjacent windows share exactly the keyframe
\* between them, and the windows cover every frame of [k0, kn].
C20_BundleWindows ==
    (ret # <<>> /\ Len(args.keyframes) >= 2 /\ StrictlyIncreasing(args.keyframes)) =>
        LET keyframes == args.keyframes
            n == Len(keyframes) - 1
            bundle_windows == ret[1]
        IN  /\ Len(bundle_windows) = n
            /\ \A i \in 1..n :
                  /\ Len(bundle_windows[i]) = keyframes[i + 1] - keyframes[i] + 1
                  /\ \A j \in DOMAIN bundle_windows[i] :
                        bundle_windows[i][j] = keyframes[i] + j - 1
            /\ \A i \in 1..(n - 1) :
                  Range(bundle_windows[i]) \cap Range(bundle_windows[i + 1]) = {keyframes[i + 1]}
            /\ UNION { Range(bundle_windows[i]) : i \in 1..n } = keyframes[1]..keyframes[n + 1]

C20_Witness ==
    /\ args.keyframes = <<0, 2, 3>>
    /\ ret = << << <<0, 1, 2>>, <<2, 3>> >> >>

\* C17 as stated: q6_1 reports the optimized pose of ck relative to c0, and
\* as relative covariance a 6 x 6 matrix, the covariance of ck given c0: the
\* inverse of the ck block of the joint marginal information of (c0, ck).
C17_RelativePoseAndCovariance ==
    ret # <<>> =>
        /\ compose(args.pose_c0, ret[1].rel_pose) = args.pose_ck
        /\ Shape(ret[1].rel_cov) = <<6, 6>>
        /\ MatMul(Matrix(<< <<args.marg_cov_mat.block[2][2]>> >>), ret[1].rel_cov)
              = Identity(1)

C21_RandTrackTerminates ==
    /\ <>(pc = "returned")
    /\ [](pc = "returned" => Len(ret[1].frame_ids) >= args.track_len)

C23_TrackIdsConsistent ==
    /\ NoDuplicates(db.track_ids)
    /\ \A i \in DOMAIN db.track_ids : db.track_ids[i] < db.track_id
    /\ \A t \in DOMAIN db.tracks : get_track_id(db.tracks[t]) = t
====
